---------------------------- MODULE Spec2Model ----------------------------
(***************************************************************************)
(* Work-efficient (Blelloch) exclusive scan and stream compaction of       *)
(* stream_compaction/efficient.cu.                                         *)
(*                                                                         *)
(* Buffers are functions over 0..len-1 (C indexing).  Four specifications  *)
(* share the kernel and host definitions:                                  *)
(*   Spec        scan(), one action per host statement / kernel launch     *)
(*   SpecCompact compact(), one action per host statement / kernel launch  *)
(*   SpecLanes   scan() with every launched lane scheduled on its own      *)
(*   SpecIndex   the lanes' index arithmetic for every padded size up to    *)
(*               2^30, block 0 of each launch                              *)
(***************************************************************************)
EXTENDS Integers, Sequences, FiniteSets, TLC

VARIABLES
    op,             \* which entry point is running: "none", "scan", "compact", "index"
    pc,             \* position of the host thread inside the entry point
    n,              \* logical size passed by the caller
    idata,          \* host input array, 0..n-1
    odata,          \* host output array, 0..n-1
    P,              \* smallestPOTGreater
    d,              \* loop variable d of the level loops
    neededThreads,  \* neededThreads
    data,           \* dev_data (scan) / indices_data (compact), 0..P-1
    dev_idata,      \* compact: device copy of the input, 0..P-1
    bool_data,      \* compact: mask written by kernMapToBoolean, 0..P-1
    dev_odata,      \* compact: device output, 0..P-1
    size,           \* compact: returned count
    scat,           \* compact: <<lane, slot>> writes issued by kernScatter
    allocs,         \* number of cudaMalloc calls made by the running call
    issued,         \* number of cudaMemcpy/cudaMemset/kernel launches issued
    stream,         \* SpecLanes: operations queued on the default stream
    pending,        \* lanes of the running kernel that passed the bounds check
                    \* and have not run yet
    touched,        \* buffer positions read or written by the last device step
    levels          \* SpecLanes: operations the device has started, in order

vars == <<op, pc, n, idata, odata, P, d, neededThreads, data, dev_idata,
          bool_data, dev_odata, size, scat, allocs, issued, stream, pending,
          touched, levels>>

---------------------------------------------------------------------------
(* Bounds of the exploration *)

\* largest logical size n explored by Spec, SpecCompact and SpecLanes
MaxN == 9

\* smallest (negative) size explored is -NegN
NegN == 1

(* Program constants *)

blockSize == 128

\* width of `unsigned` on the CUDA targets
UnsignedBits == 32

\* largest k for which 1 << k is a positive int
MaxLgP == 30

\* content of a device cell that was allocated and never written: the choice
\* between 0 and Junk is made where the cell is read
Junk == 0 - 1
Garbage == {0, Junk}

---------------------------------------------------------------------------
(* 32-bit unsigned arithmetic.  A value is <<hi, lo>>, 16 bits each, so that *)
(* no intermediate result leaves the range of TLC's 32-bit integers.       *)

Half == 2^(UnsignedBits \div 2)

U32(v) == <<(v \div Half) % Half, v % Half>>

U32Add(u, v) ==
    LET lo == u[2] + v[2]
    IN  <<(u[1] + v[1] + (lo \div Half)) % Half, lo % Half>>

\* u - 1 modulo 2^32
U32Dec(u) ==
    IF u[2] > 0 THEN <<u[1], u[2] - 1>>
    ELSE <<(u[1] + Half - 1) % Half, Half - 1>>

\* u * 2^s modulo 2^32, 0 <= s <= 31
U32MulPow2(u, s) ==
    IF s >= UnsignedBits \div 2
    THEN <<(u[2] * 2^(s - UnsignedBits \div 2)) % Half, 0>>
    ELSE <<(u[1] * 2^s + ((u[2] * 2^s) \div Half)) % Half, (u[2] * 2^s) % Half>>

U32Gt(u, v) == u[1] > v[1] \/ (u[1] = v[1] /\ u[2] > v[2])

\* the value as an integer; used only for values below 2^31
U32Int(u) == u[1] * Half + u[2]

---------------------------------------------------------------------------
(* Helpers of common.h *)

RECURSIVE ilog2ceilFrom(_, _)
ilog2ceilFrom(x, k) == IF 2^k >= x THEN k ELSE ilog2ceilFrom(x, k + 1)

\* smallest k with 2^k >= x; 0 for x <= 1
ilog2ceil(x) == ilog2ceilFrom(x, 0)

---------------------------------------------------------------------------
(* Kernels.  A lane is described by the cells it touches; `pass` is the     *)
(* outcome of its bounds check.                                              *)

\* index = (blockIdx.x * blockDim.x + threadIdx.x) * rightPOT
LaneIndex(tid, lvl) == U32MulPow2(U32(tid), lvl + 1)

\* leftIdx = index + (1 << d) - 1
LeftIdx(tid, lvl) == U32Dec(U32Add(LaneIndex(tid, lvl), U32(2^lvl)))

\* rightIdx = index + rightPOT - 1
RightIdx(tid, lvl) == U32Dec(U32Add(LaneIndex(tid, lvl), U32(2^(lvl + 1))))

\* the kernel without its early return
NoBoundsCheck(rightIdx, bound) == TRUE

\* if (rightIdx > n) { return; }
BoundsCheck(rightIdx, bound) == ~U32Gt(rightIdx, U32(bound))

LanePasses(tid, lvl, bound) == BoundsCheck(RightIdx(tid, lvl), bound)

\* fullBlocksPerGrid * blockSize threads are launched
LaunchedThreads(needed) == ((needed + blockSize - 1) \div blockSize) * blockSize

\* thread ids of a launch that get past the bounds check
PassingOf(lvl, bound, launched) ==
    {t \in 0 .. launched - 1 : LanePasses(t, lvl, bound)}

\* PassingOf for the one-block launches of the small sizes, computed once
OneBlockLg == ilog2ceil(MaxN)
OneBlockPassing ==
    [lvl \in 0 .. OneBlockLg, bound \in 0 .. 2^OneBlockLg |->
        PassingOf(lvl, bound, blockSize)]

PassingLanes(lvl, bound, needed) ==
    IF /\ LaunchedThreads(needed) = blockSize
       /\ <<lvl, bound>> \in DOMAIN OneBlockPassing
    THEN OneBlockPassing[lvl, bound]
    ELSE PassingOf(lvl, bound, LaunchedThreads(needed))

\* cells a passing lane reads or writes (both kernels touch the same two)
LaneCells(tid, lvl) == {U32Int(LeftIdx(tid, lvl)), U32Int(RightIdx(tid, lvl))}

\* data[rightIdx] += data[index + (1 << d) - 1]
UpsweepLane(buf, tid, lvl) ==
    LET l == U32Int(LeftIdx(tid, lvl))
        r == U32Int(RightIdx(tid, lvl))
    IN  IF l \in DOMAIN buf /\ r \in DOMAIN buf
        THEN [buf EXCEPT ![r] = buf[r] + buf[l]]
        ELSE buf

\* tmp = data[leftIdx]; data[leftIdx] = data[rightIdx]; data[rightIdx] += tmp
DownsweepLane(buf, tid, lvl) ==
    LET l == U32Int(LeftIdx(tid, lvl))
        r == U32Int(RightIdx(tid, lvl))
    IN  IF l \in DOMAIN buf /\ r \in DOMAIN buf
        THEN [buf EXCEPT ![l] = buf[r], ![r] = buf[r] + buf[l]]
        ELSE buf

KernelLane(kern, buf, tid, lvl) ==
    IF kern = "up" THEN UpsweepLane(buf, tid, lvl) ELSE DownsweepLane(buf, tid, lvl)

\* a whole launch followed by cudaDeviceSynchronize: every passing lane has run
RECURSIVE RunLanes(_, _, _, _)
RunLanes(kern, buf, lanes, lvl) ==
    IF lanes = {} THEN buf
    ELSE LET t == CHOOSE x \in lanes : \A y \in lanes : x <= y
         IN  RunLanes(kern, KernelLane(kern, buf, t, lvl), lanes \ {t}, lvl)

\* kernUpsweep<<<...>>>(d, n, dev_data): the bound handed over is n
UpsweepBound(nn, pp) == nn

\* the downsweep launched with the logical size, as the upsweep is
DownsweepBoundLogical(nn, pp) == nn

\* kernDownsweep<<<...>>>(d, smallestPOTGreater, dev_data)
DownsweepBound(nn, pp) == pp

CellsOf(lanes, lvl) == UNION {LaneCells(t, lvl) : t \in lanes}

\* the upsweep loop running one level too many
UpsweepContinuesOneMore(lvl, pp) == lvl <= ilog2ceil(pp)

\* for (int d = 0; d < ilog2ceil(smallestPOTGreater); ++d, neededThreads /= 2)
UpsweepContinues(lvl, pp) == lvl < ilog2ceil(pp)

\* for (int d = ilog2ceil(smallestPOTGreater) - 1; d >= 0; --d, neededThreads *= 2)
DownsweepStart(pp) == ilog2ceil(pp) - 1
DownsweepContinues(lvl) == lvl >= 0

\* &dev_data[smallestPOTGreater - 1]
RootCell(pp) == pp - 1

---------------------------------------------------------------------------
(* Host side shared by scan and compact *)

Empty == [i \in {} |-> 0]

\* 1 << ilog2ceil(n)
SmallestPOTGreater(nn) == 2^ilog2ceil(nn)

\* inputs: element i is 0 or the position-unique value 2^i
Inputs(nn) == [0 .. nn - 1 -> {0, 1}]
InputOf(bits) == [i \in DOMAIN bits |-> bits[i] * 2^i]

Sizes == (0 - NegN) .. MaxN

Idle ==
    /\ op = "none" /\ pc = "idle"
    /\ n = 0 /\ idata = Empty /\ odata = Empty
    /\ P = 0 /\ d = 0 /\ neededThreads = 0
    /\ data = Empty /\ dev_idata = Empty /\ bool_data = Empty /\ dev_odata = Empty
    /\ size = 0 /\ scat = {}
    /\ allocs = 0 /\ issued = 0
    /\ stream = <<>> /\ pending = {} /\ touched = {} /\ levels = <<>>

compactVars == <<dev_idata, bool_data, dev_odata, size, scat>>
laneVars == <<stream, pending, levels>>

\* the caller invokes scan(n, odata, idata)
CallScan ==
    /\ pc = "idle"
    /\ \E nn \in Sizes :
         /\ n' = nn
         /\ \E bits \in Inputs(nn) : idata' = InputOf(bits)
         /\ odata' = [i \in 0 .. nn - 1 |-> Junk]
    /\ op' = "scan"
    /\ pc' = "setup"
    /\ UNCHANGED <<P, d, neededThreads, data, allocs, issued, touched>>
    /\ UNCHANGED compactVars /\ UNCHANGED laneVars

\* cudaMalloc, cudaMemcpy host-to-device of n ints, cudaMemset of [n, P).
\* Nothing checks n: with n < 0 the buffer is allocated all the same and both
\* calls are issued with a wrapped byte count and an address before the buffer;
\* what they do is undefined and the model stops there.
ScanSetup ==
    /\ op = "scan" /\ pc = "setup"
    /\ P' = SmallestPOTGreater(n)
    /\ allocs' = allocs + 1
    /\ issued' = issued + 2
    /\ IF n < 0
       THEN /\ pc' = "undefined"
            /\ data' = [i \in 0 .. P' - 1 |-> Junk]
            /\ UNCHANGED <<d, neededThreads>>
       ELSE /\ pc' = "up"
            /\ data' = [i \in 0 .. P' - 1 |-> IF i < n THEN idata[i] ELSE 0]
            /\ d' = 0
            /\ neededThreads' = P'
    /\ UNCHANGED <<op, n, idata, odata, touched>>
    /\ UNCHANGED compactVars /\ UNCHANGED laneVars

\* one iteration of the upsweep loop: launch, cudaDeviceSynchronize, ++d, /= 2
Upsweep ==
    /\ pc = "up" /\ UpsweepContinues(d, P)
    /\ LET lanes == PassingLanes(d, UpsweepBound(n, P), neededThreads)
       IN  /\ data' = RunLanes("up", data, lanes, d)
           /\ touched' = CellsOf(lanes, d)
    /\ d' = d + 1
    /\ neededThreads' = neededThreads \div 2
    /\ issued' = issued + 1
    /\ UNCHANGED <<op, pc, n, idata, odata, P, allocs>>
    /\ UNCHANGED compactVars /\ UNCHANGED laneVars

\* loop exit, then cudaMemset(&dev_data[smallestPOTGreater - 1], 0, sizeof(int))
ZeroRoot ==
    /\ pc = "up" /\ ~UpsweepContinues(d, P)
    /\ data' = [data EXCEPT ![RootCell(P)] = 0]
    /\ touched' = {RootCell(P)}
    /\ d' = DownsweepStart(P)
    /\ pc' = "down"
    /\ issued' = issued + 1
    /\ UNCHANGED <<op, n, idata, odata, P, neededThreads, allocs>>
    /\ UNCHANGED compactVars /\ UNCHANGED laneVars

\* one iteration of the downsweep loop: launch, cudaDeviceSynchronize, --d, *= 2
Downsweep ==
    /\ pc = "down" /\ DownsweepContinues(d)
    /\ LET lanes == PassingLanes(d, DownsweepBound(n, P), neededThreads)
       IN  /\ data' = RunLanes("down", data, lanes, d)
           /\ touched' = CellsOf(lanes, d)
    /\ d' = d - 1
    /\ neededThreads' = neededThreads * 2
    /\ issued' = issued + 1
    /\ UNCHANGED <<op, pc, n, idata, odata, P, allocs>>
    /\ UNCHANGED compactVars /\ UNCHANGED laneVars

\* cudaMemcpy(odata, dev_data, n * sizeof(int), DeviceToHost); cudaFree
ScanCopyOut ==
    /\ op = "scan" /\ pc = "down" /\ ~DownsweepContinues(d)
    /\ odata' = [i \in 0 .. n - 1 |-> data[i]]
    /\ pc' = "done"
    /\ issued' = issued + 1
    /\ UNCHANGED <<op, n, idata, P, d, neededThreads, data, allocs, touched>>
    /\ UNCHANGED compactVars /\ UNCHANGED laneVars

Init == Idle

Next ==
    \/ CallScan
    \/ ScanSetup
    \/ Upsweep
    \/ ZeroRoot
    \/ Downsweep
    \/ ScanCopyOut

Spec == Init /\ [][Next]_vars

---------------------------------------------------------------------------
(* compact() *)

\* bools[i] = idata[i] != 0 ? 1 : 0 for i < cnt
kernMapToBoolean(cnt, in) == [i \in 0 .. cnt - 1 |-> IF in[i] # 0 THEN 1 ELSE 0]

\* lanes of kernScatter that write: if (bools[i] == 1) odata[indices[i]] = idata[i]
ScatterWriters(cnt, bools) == {i \in 0 .. cnt - 1 : bools[i] = 1}

\* values the writing lanes store into slot s
ScatterValues(cnt, in, bools, indices, s) ==
    {in[i] : i \in {w \in ScatterWriters(cnt, bools) : indices[w] = s}}

\* the outcomes of kernScatter: a slot written by several lanes keeps the value
\* of whichever lane wrote last, an unwritten slot keeps what it held
kernScatter(cnt, out, in, bools, indices) ==
    LET valsOf(s) == ScatterValues(cnt, in, bools, indices, s)
        raced == {s \in DOMAIN out : Cardinality(valsOf(s)) > 1}
        picks == {f \in [raced -> UNION {valsOf(s) : s \in raced}] :
                    \A s \in raced : f[s] \in valsOf(s)}
    IN  {[s \in DOMAIN out |->
            IF s \in raced THEN f[s]
            ELSE IF valsOf(s) # {} THEN CHOOSE v \in valsOf(s) : TRUE
            ELSE out[s]] : f \in picks}

\* the caller invokes compact(n, odata, idata)
CallCompact ==
    /\ pc = "idle"
    /\ \E nn \in Sizes :
         /\ n' = nn
         /\ \E bits \in Inputs(nn) : idata' = InputOf(bits)
         /\ odata' = [i \in 0 .. nn - 1 |-> Junk]
    /\ op' = "compact"
    /\ pc' = "setup"
    /\ UNCHANGED <<P, d, neededThreads, data, allocs, issued, touched>>
    /\ UNCHANGED compactVars /\ UNCHANGED laneVars

\* four cudaMalloc, then cudaMemcpy of n ints into dev_idata: its cells [n, P)
\* are never written and hold whatever the allocation held.  Nothing checks n.
CompactSetup ==
    /\ op = "compact" /\ pc = "setup"
    /\ P' = SmallestPOTGreater(n)
    /\ allocs' = allocs + 4
    /\ issued' = issued + 1
    /\ bool_data' = [i \in 0 .. P' - 1 |-> Junk]
    /\ dev_odata' = [i \in 0 .. P' - 1 |-> Junk]
    /\ data' = [i \in 0 .. P' - 1 |-> Junk]
    /\ IF n < 0
       THEN /\ pc' = "undefined"
            /\ dev_idata' = [i \in 0 .. P' - 1 |-> Junk]
       ELSE /\ pc' = "map"
            /\ \E g \in [n .. P' - 1 -> Garbage] :
                 dev_idata' = [i \in 0 .. P' - 1 |-> IF i < n THEN idata[i] ELSE g[i]]
    /\ UNCHANGED <<op, n, idata, odata, d, neededThreads, size, scat, touched>>
    /\ UNCHANGED laneVars

\* Common::kernMapToBoolean<<<...>>>(smallestPOTGreater, bool_data, dev_idata)
MapToBoolean ==
    /\ op = "compact" /\ pc = "map"
    /\ bool_data' = kernMapToBoolean(P, dev_idata)
    /\ pc' = "copymask"
    /\ issued' = issued + 1
    /\ UNCHANGED <<op, n, idata, odata, P, d, neededThreads, data, dev_idata,
                   dev_odata, size, scat, allocs, touched>>
    /\ UNCHANGED laneVars

\* cudaMemcpy(indices_data, bool_data, P ints), cudaMemset(indices_data + n, ...)
CompactCopyMask ==
    /\ op = "compact" /\ pc = "copymask"
    /\ data' = [i \in 0 .. P - 1 |-> IF i < n THEN bool_data[i] ELSE 0]
    /\ neededThreads' = P
    /\ d' = 0
    /\ pc' = "up"
    /\ issued' = issued + 2
    /\ UNCHANGED <<op, n, idata, odata, P, allocs, touched>>
    /\ UNCHANGED compactVars /\ UNCHANGED laneVars

\* Common::kernScatter<<<...>>>(P, dev_odata, dev_idata, bool_data, indices_data)
Scatter ==
    /\ op = "compact" /\ pc = "down" /\ ~DownsweepContinues(d)
    /\ dev_odata' \in kernScatter(P, dev_odata, dev_idata, bool_data, data)
    /\ scat' = {<<i, data[i]>> : i \in ScatterWriters(P, bool_data)}
    /\ pc' = "scattered"
    /\ issued' = issued + 1
    /\ UNCHANGED <<op, n, idata, odata, P, d, neededThreads, data, dev_idata,
                   bool_data, size, allocs, touched>>
    /\ UNCHANGED laneVars

\* cudaMemcpy(odata, dev_odata, n ints); size = indices_data[P - 1]; return size
CompactCopyOut ==
    /\ op = "compact" /\ pc = "scattered"
    /\ odata' = [i \in 0 .. n - 1 |-> dev_odata[i]]
    /\ size' = data[P - 1]
    /\ pc' = "done"
    /\ issued' = issued + 2
    /\ UNCHANGED <<op, n, idata, P, d, neededThreads, data, dev_idata,
                   bool_data, dev_odata, scat, allocs, touched>>
    /\ UNCHANGED laneVars

NextCompact ==
    \/ CallCompact
    \/ CompactSetup
    \/ MapToBoolean
    \/ CompactCopyMask
    \/ Upsweep
    \/ ZeroRoot
    \/ Downsweep
    \/ Scatter
    \/ CompactCopyOut

SpecCompact == Init /\ [][NextCompact]_vars

---------------------------------------------------------------------------
(* scan() with the device made visible: kernel launches and the root memset *)
(* are queued on the default stream, the device starts a queued operation   *)
(* when the one before it has completed, and the lanes of a running kernel  *)
(* run one at a time in any order.  A lane that fails the bounds check      *)
(* returns without touching memory and is retired when its kernel starts.  *)

\* the caller invokes scan(n, odata, idata) on x[i] = 2^i
CallLanes ==
    /\ pc = "idle"
    /\ \E nn \in 0 .. MaxN :
         /\ n' = nn
         /\ idata' = InputOf([i \in 0 .. nn - 1 |-> 1])
         /\ odata' = [i \in 0 .. nn - 1 |-> Junk]
    /\ op' = "scan"
    /\ pc' = "setup"
    /\ UNCHANGED <<P, d, neededThreads, data, allocs, issued, touched>>
    /\ UNCHANGED compactVars /\ UNCHANGED laneVars

\* cudaDeviceSynchronize() returns: nothing is queued or running on the device
DeviceSynchronized == stream = <<>> /\ pending = {}

hostVars == <<op, n, idata, odata, P, allocs>>

\* kernUpsweep<<<fullBlocksPerGrid, blockSize>>>(d, n, dev_data)
UpLaunch ==
    /\ op = "scan" /\ pc = "up" /\ UpsweepContinues(d, P)
    /\ stream' = Append(stream, [kern |-> "up", lvl |-> d,
                                 bound |-> UpsweepBound(n, P),
                                 needed |-> neededThreads])
    /\ pc' = "upsync"
    /\ issued' = issued + 1
    /\ UNCHANGED hostVars /\ UNCHANGED compactVars
    /\ UNCHANGED <<d, neededThreads, data, pending, touched, levels>>

\* cudaDeviceSynchronize(); ++d, neededThreads /= 2
UpSync ==
    /\ op = "scan" /\ pc = "upsync" /\ DeviceSynchronized
    /\ d' = d + 1
    /\ neededThreads' = neededThreads \div 2
    /\ pc' = "up"
    /\ UNCHANGED hostVars /\ UNCHANGED compactVars /\ UNCHANGED laneVars
    /\ UNCHANGED <<data, issued, touched>>

\* loop exit, cudaMemset(&dev_data[smallestPOTGreater - 1], 0, sizeof(int))
ZeroRootLaunch ==
    /\ op = "scan" /\ pc = "up" /\ ~UpsweepContinues(d, P)
    /\ stream' = Append(stream, [kern |-> "zero", lvl |-> 0,
                                 bound |-> RootCell(P), needed |-> 1])
    /\ d' = DownsweepStart(P)
    /\ pc' = "down"
    /\ issued' = issued + 1
    /\ UNCHANGED hostVars /\ UNCHANGED compactVars
    /\ UNCHANGED <<neededThreads, data, pending, touched, levels>>

\* kernDownsweep<<<fullBlocksPerGrid, blockSize>>>(d, smallestPOTGreater, dev_data)
DownLaunch ==
    /\ op = "scan" /\ pc = "down" /\ DownsweepContinues(d)
    /\ stream' = Append(stream, [kern |-> "down", lvl |-> d,
                                 bound |-> DownsweepBound(n, P),
                                 needed |-> neededThreads])
    /\ pc' = "downsync"
    /\ issued' = issued + 1
    /\ UNCHANGED hostVars /\ UNCHANGED compactVars
    /\ UNCHANGED <<d, neededThreads, data, pending, touched, levels>>

\* cudaDeviceSynchronize(); --d, neededThreads *= 2
DownSync ==
    /\ op = "scan" /\ pc = "downsync" /\ DeviceSynchronized
    /\ d' = d - 1
    /\ neededThreads' = neededThreads * 2
    /\ pc' = "down"
    /\ UNCHANGED hostVars /\ UNCHANGED compactVars /\ UNCHANGED laneVars
    /\ UNCHANGED <<data, issued, touched>>

\* blocking cudaMemcpy device-to-host of n ints, cudaFree, return
LanesCopyOut ==
    /\ op = "scan" /\ pc = "down" /\ ~DownsweepContinues(d) /\ DeviceSynchronized
    /\ odata' = [i \in 0 .. n - 1 |-> data[i]]
    /\ pc' = "done"
    /\ issued' = issued + 1
    /\ UNCHANGED <<op, n, idata, P, d, neededThreads, data, allocs, touched>>
    /\ UNCHANGED compactVars /\ UNCHANGED laneVars

\* the device starts the operation at the head of the stream
DeviceStart ==
    /\ stream # <<>> /\ pending = {}
    /\ LET h == Head(stream)
       IN  /\ levels' = Append(levels, <<h.kern, h.lvl>>)
           /\ IF h.kern = "zero"
              THEN /\ data' = [data EXCEPT ![h.bound] = 0]
                   /\ touched' = {h.bound}
                   /\ pending' = {}
              ELSE /\ pending' = {[kern |-> h.kern, lvl |-> h.lvl, tid |-> t] :
                                    t \in PassingLanes(h.lvl, h.bound, h.needed)}
                   /\ UNCHANGED <<data, touched>>
    /\ stream' = Tail(stream)
    /\ UNCHANGED hostVars /\ UNCHANGED compactVars
    /\ UNCHANGED <<pc, d, neededThreads, issued>>

\* one lane of the running kernel executes its body
LaneRun ==
    /\ \E l \in pending :
         /\ data' = KernelLane(l.kern, data, l.tid, l.lvl)
         /\ touched' = LaneCells(l.tid, l.lvl)
         /\ pending' = pending \ {l}
    /\ UNCHANGED hostVars /\ UNCHANGED compactVars
    /\ UNCHANGED <<pc, d, neededThreads, issued, stream, levels>>

NextLanes ==
    \/ CallLanes
    \/ ScanSetup
    \/ UpLaunch
    \/ UpSync
    \/ ZeroRootLaunch
    \/ DownLaunch
    \/ DownSync
    \/ LanesCopyOut
    \/ DeviceStart
    \/ LaneRun

SpecLanes == Init /\ [][NextLanes]_vars

---------------------------------------------------------------------------
(* The index arithmetic of the launches of one call, for every padded size  *)
(* the int arithmetic of the host admits.  Only the lanes of block 0 are     *)
(* enumerated; no buffer is modelled.                                       *)

Min(a, b) == IF a < b THEN a ELSE b

\* lanes of block 0 of a launch that pass the bounds check
BlockZeroLanes(kern, lvl, bound, needed) ==
    {[kern |-> kern, lvl |-> lvl, tid |-> t] :
        t \in PassingOf(lvl, bound, Min(LaunchedThreads(needed), blockSize))}

\* a call with n = P or n = P - 1
IndexCall ==
    /\ pc = "idle"
    /\ \E lg \in 0 .. MaxLgP : \E nn \in {2^lg, 2^lg - 1} :
         /\ nn >= 1 /\ SmallestPOTGreater(nn) = 2^lg
         /\ n' = nn
         /\ P' = 2^lg
         /\ neededThreads' = 2^lg
    /\ op' = "index"
    /\ pc' = "up"
    /\ d' = 0
    /\ UNCHANGED <<idata, odata, data, allocs, issued, touched>>
    /\ UNCHANGED compactVars /\ UNCHANGED laneVars

IndexUpLevel ==
    /\ op = "index" /\ pc = "up" /\ UpsweepContinues(d, P)
    /\ pending' = BlockZeroLanes("up", d, UpsweepBound(n, P), neededThreads)
    /\ d' = d + 1
    /\ neededThreads' = neededThreads \div 2
    /\ UNCHANGED <<op, pc, n, idata, odata, P, data, allocs, issued, touched,
                   stream, levels>>
    /\ UNCHANGED compactVars

IndexZeroRoot ==
    /\ op = "index" /\ pc = "up" /\ ~UpsweepContinues(d, P)
    /\ pending' = {}
    /\ d' = DownsweepStart(P)
    /\ pc' = "down"
    /\ UNCHANGED <<op, n, idata, odata, P, neededThreads, data, allocs, issued,
                   touched, stream, levels>>
    /\ UNCHANGED compactVars

IndexDownLevel ==
    /\ op = "index" /\ pc = "down" /\ DownsweepContinues(d)
    /\ pending' = BlockZeroLanes("down", d, DownsweepBound(n, P), neededThreads)
    /\ d' = d - 1
    /\ neededThreads' = neededThreads * 2
    /\ UNCHANGED <<op, pc, n, idata, odata, P, data, allocs, issued, touched,
                   stream, levels>>
    /\ UNCHANGED compactVars

NextIndex ==
    \/ IndexCall
    \/ IndexUpLevel
    \/ IndexZeroRoot
    \/ IndexDownLevel

SpecIndex == Init /\ [][NextIndex]_vars

---------------------------------------------------------------------------
(* Reference values *)

RECURSIVE SumTo(_, _)
\* sum of f over positions 0 .. k-1 that lie in its domain
SumTo(f, k) == IF k <= 0 THEN 0
               ELSE SumTo(f, k - 1) + (IF k - 1 \in DOMAIN f THEN f[k - 1] ELSE 0)

SumRange(f, lo, hi) == SumTo(f, hi) - SumTo(f, lo)

\* the input zero-padded to P cells
Padded == [i \in 0 .. P - 1 |-> IF i < n THEN idata[i] ELSE 0]

RECURSIVE NonZeros(_, _)
\* the non-zero elements of f[0 .. k-1], in order
NonZeros(f, k) == IF k <= 0 THEN <<>>
                  ELSE IF f[k - 1] # 0 THEN Append(NonZeros(f, k - 1), f[k - 1])
                  ELSE NonZeros(f, k - 1)

ScanReturned == op = "scan" /\ pc = "done"
CompactReturned == op = "compact" /\ pc = "done"
DownsweepFinished == pc = "down" /\ d < 0

---------------------------------------------------------------------------
(* Claims about scan(), checked under Spec *)

C4_NegativeSizeRejected ==
    n < 0 => (allocs = 0 /\ issued = 0 /\ \A i \in DOMAIN odata : odata[i] = Junk)

\* C5: when the downsweep has finished, every cell i of the whole working
\* buffer [0, P) holds the sum of the zero-padded input over [0, i).
C5_WholeBufferScanned ==
    (DownsweepFinished /\ n >= 1) =>
        /\ data[0] = 0
        /\ \A i \in 0 .. P - 1 : data[i] = SumTo(Padded, i)

\* C6: after upsweep level d-1 every node's right cell base + 2^d - 1 holds the
\* sum of the zero-padded input over [base, base + 2^d); after the last level
\* data[P-1] holds the total of the input.
C6_UpsweepNodeSums ==
    (pc = "up" /\ n >= 1) =>
        /\ \A k \in 0 .. (P \div 2^d) - 1 :
             data[k * 2^d + 2^d - 1] = SumRange(Padded, k * 2^d, (k + 1) * 2^d)
        /\ (d = ilog2ceil(P) => data[P - 1] = SumTo(idata, n))

---------------------------------------------------------------------------
(* Claims about compact(), checked under SpecCompact *)

\* C2: the value compact returns is the number of non-zero elements of x[0..n).
C2_CountIsNonZeros ==
    (CompactReturned /\ n >= 1) => size = Len(NonZeros(idata, n))

\* C3: odata[0..k) holds the non-zero elements of x[0..n) in their original
\* order, whatever order the scatter lanes ran in and whatever the cells
\* [n, P) of the device input held.
C3_CompactedInOrder ==
    (CompactReturned /\ n >= 1) =>
        LET kept == NonZeros(idata, n)
        IN  \A j \in 1 .. Len(kept) : odata[j - 1] = kept[j]

\* C9: the mask is 0 at every index in [n, P), in the scanned copy and in the
\* mask Scatter consumes; Scatter writes only for positions i < n with
\* input[i] # 0, and no two scatter lanes write the same slot.
C9_MaskPaddingZero ==
    (op = "compact" /\ n >= 1) =>
        /\ pc \in {"copymask", "up", "down", "scattered", "done"} =>
              \A i \in n .. P - 1 : bool_data[i] = 0
        /\ (pc = "up" /\ d = 0) => \A i \in n .. P - 1 : data[i] = 0
        /\ \A w \in scat : w[1] < n /\ idata[w[1]] # 0
        /\ \A v, w \in scat : v[2] = w[2] => v[1] = w[1]

---------------------------------------------------------------------------
(* Claims about the schedule of scan(), checked under SpecLanes *)

\* the operations of one scan in the order the claim gives them:
\* up 0 .. L-1, the root memset, down L-1 .. 0
ExpectedOrder ==
    LET L == ilog2ceil(P)
    IN  [i \in 1 .. 2 * L + 1 |->
            IF i <= L THEN <<"up", i - 1>>
            ELSE IF i = L + 1 THEN <<"zero", 0>>
            ELSE <<"down", 2 * L + 1 - i>>]

ScanRunning == op = "scan" /\ n >= 1 /\ pc \notin {"idle", "setup", "undefined"}

\* C7: the device runs the upsweep levels 0 .. log2(P)-1 in order, then the
\* root memset, then the downsweep levels log2(P)-1 .. 0 in order; a lane
\* that has not finished always belongs to the operation started last, so no
\* operation starts before every lane of the one before it has finished;
\* the call can always take a step until it returns, and it returns after
\* exactly log2(P) levels of each phase.
C7_PhasesOrderedByBarriers ==
    ScanRunning =>
        /\ Len(levels) <= Len(ExpectedOrder)
        /\ \A i \in 1 .. Len(levels) : levels[i] = ExpectedOrder[i]
        /\ \A l \in pending :
             levels # <<>> /\ <<l.kern, l.lvl>> = levels[Len(levels)]
        /\ pc = "done" => (levels = ExpectedOrder /\ DeviceSynchronized)
        /\ pc # "done" => ENABLED NextLanes

\* a scan of a non-power-of-two size with four levels per phase has returned
C7_Witness ==
    /\ ScanRunning /\ pc = "done" /\ n < P
    /\ Len(levels) = 2 * ilog2ceil(P) + 1 /\ ilog2ceil(P) >= 4

\* C10: every cell a lane of kernUpsweep or kernDownsweep reads or writes,
\* and the cell the root memset writes, lies in [0, P), the extent of the
\* buffer.
C10_AccessesInBounds ==
    ScanRunning =>
        /\ DOMAIN data = 0 .. P - 1
        /\ touched \subseteq 0 .. P - 1

\* an upsweep lane whose rightIdx equals n (let through by `>`) has just run
C10_Witness ==
    /\ ScanRunning /\ n < P /\ n \in touched
    /\ levels # <<>> /\ levels[Len(levels)][1] = "up"
    /\ Cardinality(touched) = 2

---------------------------------------------------------------------------
(* Claim about the index arithmetic, checked under SpecIndex *)

\* C8: within one level, two distinct launched lanes that pass the bounds
\* check touch disjoint sets of cells.  Stated by counting: the lanes' cell
\* sets are pairwise disjoint exactly when their union has as many cells as
\* the sets have together.
C8_LanesDisjoint ==
    LET lanes == {l \in pending : Cardinality(LaneCells(l.tid, l.lvl)) = 2}
        cells == UNION {LaneCells(l.tid, l.lvl) : l \in pending}
    IN  /\ lanes = pending
        /\ Cardinality(cells) = 2 * Cardinality(pending)

=============================================================================
